---- MODULE Spec2Model ----
(***************************************************************************)
(* Model of prefect.input.run_input: keyset derivation, the RunInput       *)
(* schema registrar (save / load), the cross-run sender (send_input) and   *)
(* the input poller (get_input).                                           *)
(*                                                                         *)
(* Strings are sequences of one-character strings, so that lower(),        *)
(* concatenation and prefix matching are computed, not assumed.            *)
(* Time is counted in ticks of half a second, so that timeout / 2 is a     *)
(* whole number of ticks for every whole timeout.                          *)
(***************************************************************************)
EXTENDS Naturals, Sequences, FiniteSets, TLC

VARIABLES
    pstates,    \* keyset derivation: the argument of each call, a State object for
                \* keyset_from_paused_state, a base key for keyset_from_base_key
    kresults,   \* keyset derivation: what each call returned or raised ("none" before the call)
    store,      \* the flow run input store: records [run, key, value] in creation order
    scls,       \* schema registrar: the RunInput class save / load are called on
    sinst,      \* schema registrar: an instance of scls held by the caller
    srun,       \* schema registrar: the flow_run_id passed to save / load
    skeyset,    \* schema registrar: the keyset passed to save / load
    ssaved,     \* schema registrar: save has completed
    loadResult, \* schema registrar: what the last load returned or raised
    lctx,       \* history: at the last load, whether save had completed and what was
                \* stored under keyset["response"]
    offered,    \* send_input: the calls (input, flow_run_id) the sending tasks make
    sender,     \* send_input: per sending task, its context, position and pending create
    minted,     \* send_input: the values uuid4() has handed out
    sentLog,    \* history: the deliveries send_input completed, in order
    poller,     \* get_input: per instance, its configuration, exclude_keys and _keyset,
                \* and history: the keysets it read from the store (resolved)
    caller,     \* get_input: per task iterating an instance, its position in next(), and
                \* history: what was published when its call began (publishedAtCall),
                \* the times of the call's re-checks (queries), how much the instance
                \* had been handed when the call's query was answered (qseen), and,
                \* where arrivals are observed, the keys created while the call had
                \* waited less than half its timeout (early) and the keys created
                \* while the task sat idle after a call that timed out (late)
    yields      \* history: per instance, the records its next() calls were handed

keyVars == <<pstates, kresults>>
schemaVars == <<scls, sinst, srun, skeyset, ssaved, loadResult, lctx>>
sendVars == <<offered, sender, minted, sentLog>>
pollVars == <<poller, caller, yields>>
vars == <<pstates, kresults, store, scls, sinst, srun, skeyset, ssaved, loadResult, lctx,
          offered, sender, minted, sentLog, poller, caller, yields>>

-----------------------------------------------------------------------------
(* Bounds of the model *)

MaxNameLen == 2
MaxTokenLen == 2
MaxInt == 1         \* field values are 0..MaxInt
MaxSends == 2       \* uuid4() values available to send_input
MaxTimeout == 2     \* get_input timeouts are 1..MaxTimeout seconds
MaxPoll == 2        \* get_input poll intervals are 1..MaxPoll seconds

-----------------------------------------------------------------------------
(* Strings *)

\* the strings over alphabet `chars` of length 1..n
RECURSIVE StringsUpTo(_, _)
StringsUpTo(chars, n) ==
    IF n = 0 THEN {}
    ELSE LET shorter == StringsUpTo(chars, n - 1)
         IN  {<<c>> : c \in chars} \cup shorter
                \cup {s \o <<c>> : s \in shorter, c \in chars}

\* str.lower() on one character
LowerChar(c) ==
    CASE c = "A" -> "a" [] c = "B" -> "b" [] c = "F" -> "f"
      [] c = "O" -> "o" [] c = "P" -> "p" [] c = "R" -> "r"
      [] OTHER -> c

\* str.lower()
Lower(s) == [i \in 1..Len(s) |-> LowerChar(s[i])]

\* str.startswith
StartsWith(s, prefix) ==
    /\ Len(prefix) <= Len(s)
    /\ SubSeq(s, 1, Len(prefix)) = prefix

Hyphen == <<"-">>
ResponseSuffix == <<"-", "r", "e", "s", "p", "o", "n", "s", "e">>
SchemaSuffix == <<"-", "s", "c", "h", "e", "m", "a">>

-----------------------------------------------------------------------------
(* Keyset Deriver *)

\* mutant: both keys get the "-response" suffix
keyset_from_base_key_one_suffix(base_key) ==
    [response |-> base_key \o ResponseSuffix, schema |-> base_key \o ResponseSuffix]

\* keyset_from_base_key: {"response": f"{base_key}-response", "schema": f"{base_key}-schema"}
keyset_from_base_key(base_key) ==
    [response |-> base_key \o ResponseSuffix, schema |-> base_key \o SchemaSuffix]

\* State.is_paused()
is_paused(state) == state.type = "PAUSED"

Returned(v) == [kind |-> "return", value |-> v, error |-> "none"]
Raised(e) == [kind |-> "raise", value |-> "none", error |-> e]
NotCalled == [kind |-> "none", value |-> "none", error |-> "none"]

\* mutant: the is_paused() guard is missing
keyset_from_paused_state_unguarded(state) ==
    Returned(keyset_from_base_key(Lower(state.name) \o Hyphen \o state.pause_key))

\* keyset_from_paused_state: RuntimeError unless the state is paused, else the
\* keyset of f"{state.name.lower()}-{str(state.state_details.pause_key)}"
keyset_from_paused_state(state) ==
    IF ~is_paused(state)
    THEN Raised("RuntimeError")
    ELSE Returned(keyset_from_base_key(Lower(state.name) \o Hyphen \o state.pause_key))

StateTypes == {"PAUSED", "RUNNING"}
StateNames == StringsUpTo({"P", "p", "-"}, MaxNameLen)
PauseKeys == StringsUpTo({"p", "-"}, MaxTokenLen)
States == [type : StateTypes, name : StateNames, pause_key : PauseKeys]

\* one call of keyset_from_paused_state on the i-th state
DeriveFromPausedState(i) ==
    /\ kresults[i].kind = "none"
    /\ kresults' = [kresults EXCEPT ![i] = keyset_from_paused_state(pstates[i])]
    /\ UNCHANGED <<pstates, store, schemaVars, sendVars, pollVars>>

KeysInit(n) ==
    /\ pstates \in [1..n -> States]
    /\ kresults = [i \in 1..n |-> NotCalled]
    /\ store = << >>
    /\ scls = "none" /\ sinst = "none" /\ srun = "none" /\ skeyset = "none"
    /\ ssaved = FALSE /\ loadResult = NotCalled /\ lctx = "none"
    /\ offered = {} /\ sender = << >> /\ minted = {} /\ sentLog = << >>
    /\ poller = << >> /\ caller = << >> /\ yields = << >>

KeysNext == \E i \in DOMAIN pstates : DeriveFromPausedState(i)

\* one state at a time
SpecKeys == KeysInit(1) /\ [][KeysNext]_vars
\* two states side by side
SpecPause == KeysInit(2) /\ [][KeysNext]_vars

\* the base keys handed to keyset_from_base_key
BaseKeys == StringsUpTo({"x", "-", "r"}, MaxNameLen)

\* one call of keyset_from_base_key on the i-th base key
DeriveFromBaseKey(i) ==
    /\ kresults[i].kind = "none"
    /\ kresults' = [kresults EXCEPT ![i] = Returned(keyset_from_base_key(pstates[i]))]
    /\ UNCHANGED <<pstates, store, schemaVars, sendVars, pollVars>>

\* two calls, on the same base key or on two
BaseInit ==
    /\ pstates \in [1..2 -> BaseKeys]
    /\ kresults = [i \in 1..2 |-> NotCalled]
    /\ store = << >>
    /\ scls = "none" /\ sinst = "none" /\ srun = "none" /\ skeyset = "none"
    /\ ssaved = FALSE /\ loadResult = NotCalled /\ lctx = "none"
    /\ offered = {} /\ sender = << >> /\ minted = {} /\ sentLog = << >>
    /\ poller = << >> /\ caller = << >> /\ yields = << >>

BaseNext == \E i \in DOMAIN pstates : DeriveFromBaseKey(i)

SpecBase == BaseInit /\ [][BaseNext]_vars

-----------------------------------------------------------------------------
(* Values: Python values, their JSON encoding, and pydantic validation *)

\* JSON atoms; Python ints and None are written the same way
JInt(n) == [t |-> "int", n |-> n, s |-> ""]
JStr(str) == [t |-> "str", n |-> 0, s |-> str]
JNull == [t |-> "null", n |-> 0, s |-> ""]
\* a Python UUID value
PyUuid(str) == [t |-> "uuid", n |-> 0, s |-> str]

Ints == 0..MaxInt
Runs == {"R1", "R2"}

\* the decimal strings int() accepts, with their values
Digits(n) ==
    CASE n = 0 -> "0" [] n = 1 -> "1" [] n = 2 -> "2" [] n = 3 -> "3" [] OTHER -> "9"
IsIntString(str) == \E n \in Ints : Digits(n) = str
ParseInt(str) == CHOOSE n \in Ints : Digits(n) = str

\* pydantic validation of one value against a field of type int
IntFieldAccepts(a) == a.t = "int" \/ (a.t = "str" /\ IsIntString(a.s))
IntFieldValue(a) == IF a.t = "int" THEN a ELSE JInt(ParseInt(a.s))

\* pydantic validation of sending_flow_run_id: Optional[UUID]
UuidFieldAccepts(a) == a.t = "null" \/ a.t = "uuid" \/ (a.t = "str" /\ a.s \in Runs)
UuidFieldValue(a) == IF a.t = "str" THEN PyUuid(a.s) ELSE a

\* json encoding of one Python value (UUIDs become strings)
ToJson(a) == IF a.t = "uuid" THEN JStr(a.s) ELSE a

-----------------------------------------------------------------------------
(* RunInput classes *)

Required == [required |-> TRUE, default |-> JNull]
Defaulted(v) == [required |-> FALSE, default |-> v]

FooName == <<"F", "o", "o">>
\* class Foo(RunInput): x: int; y: int = 0
Foo == [name |-> FooName, fields |-> [x |-> Required, y |-> Defaulted(JInt(0))]]

\* RunInput.with_initial_data: a class of the same name whose fields named in
\* kwargs have the given values as defaults
with_initial_data(cls, kwargs) ==
    [name |-> cls.name,
     fields |-> [f \in DOMAIN kwargs \cup DOMAIN cls.fields |->
                    IF f \in DOMAIN kwargs THEN Defaulted(kwargs[f]) ELSE cls.fields[f]]]

\* the instances of a class: every declared field has a value
InstancesOf(cls) ==
    {[cls |-> cls.name, fields |-> fv] : fv \in [DOMAIN cls.fields -> {JInt(n) : n \in Ints}]}

\* instance.json(): the object of the instance's fields
InstanceJson(inst) == [f \in DOMAIN inst.fields |-> ToJson(inst.fields[f])]

\* mutant: class Config: extra = "ignore" (pydantic's default)
ConstructIgnoringExtra(cls, raw) ==
    LET declared == DOMAIN cls.fields
        missing == {f \in declared : cls.fields[f].required /\ f \notin DOMAIN raw}
        bad == {f \in declared \cap DOMAIN raw : ~IntFieldAccepts(raw[f])}
    IN  IF missing \cup bad # {}
        THEN Raised("ValidationError")
        ELSE Returned([cls |-> cls.name,
                       fields |-> [f \in declared |->
                                      IF f \in DOMAIN raw THEN IntFieldValue(raw[f])
                                      ELSE cls.fields[f].default]])

\* cls(**raw) under class Config: extra = "forbid"
Construct(cls, raw) ==
    LET declared == DOMAIN cls.fields
        extra == DOMAIN raw \ declared
        missing == {f \in declared : cls.fields[f].required /\ f \notin DOMAIN raw}
        bad == {f \in declared \cap DOMAIN raw : ~IntFieldAccepts(raw[f])}
    IN  IF extra \cup missing \cup bad # {}
        THEN Raised("ValidationError")
        ELSE Returned([cls |-> cls.name,
                       fields |-> [f \in declared |->
                                      IF f \in DOMAIN raw THEN IntFieldValue(raw[f])
                                      ELSE cls.fields[f].default]])

\* cls.schema(by_alias=True) / create_v2_schema(cls.__name__, model_base=cls)
SchemaOf(cls) ==
    [title |-> cls.name,
     properties |-> DOMAIN cls.fields,
     required |-> {f \in DOMAIN cls.fields : cls.fields[f].required}]

-----------------------------------------------------------------------------
(* The store behind prefect.input.actions *)

Positions(st, run, key) == {i \in DOMAIN st : st[i].run = run /\ st[i].key = key}

\* create_flow_run_input: one durable write under (run, key)
create_flow_run_input(st, key, value, run) ==
    IF Positions(st, run, key) = {}
    THEN Append(st, [run |-> run, key |-> key, value |-> value])
    ELSE [i \in DOMAIN st |->
            IF i \in Positions(st, run, key) THEN [st[i] EXCEPT !.value = value] ELSE st[i]]

\* read_flow_run_input: the value under (run, key); NotFound when absent
read_flow_run_input(st, key, run) ==
    IF Positions(st, run, key) = {}
    THEN Raised("NotFound")
    ELSE Returned(st[CHOOSE i \in Positions(st, run, key) : TRUE].value)

-----------------------------------------------------------------------------
(* Schema Registrar *)

\* RunInput.save: writes the class's schema under keyset["schema"]
Save ==
    /\ store' = create_flow_run_input(store, skeyset.schema, SchemaOf(scls), srun)
    /\ ssaved' = TRUE
    /\ UNCHANGED <<scls, sinst, srun, skeyset, loadResult, lctx, keyVars, sendVars, pollVars>>

\* mutant: load reads the schema slot
LoadValue_schema_slot(st) ==
    LET read == read_flow_run_input(st, skeyset.schema, srun)
    IN  IF read.kind = "raise" THEN read ELSE Construct(scls, read.value)

\* RunInput.load: value = read_flow_run_input(keyset["response"]); cls(**value)
LoadValue(st) ==
    LET read == read_flow_run_input(st, skeyset.response, srun)
    IN  IF read.kind = "raise" THEN read ELSE Construct(scls, read.value)

Load ==
    /\ loadResult' = LoadValue(store)
    /\ lctx' = [saved |-> ssaved,
                stored |-> read_flow_run_input(store, skeyset.response, srun)]
    /\ UNCHANGED <<store, scls, sinst, srun, skeyset, ssaved, keyVars, sendVars, pollVars>>

\* RunInput.load when the store call fails
LoadFails ==
    /\ loadResult' = Raised("StoreError")
    /\ lctx' = [saved |-> ssaved, stored |-> Raised("StoreError")]
    /\ UNCHANGED <<store, scls, sinst, srun, skeyset, ssaved, keyVars, sendVars, pollVars>>

FieldNames == {"x", "y", "z"}
RawAtoms == {JInt(n) : n \in Ints} \cup {JStr("1"), JStr("a")}
RawValues == UNION {[d -> RawAtoms] : d \in SUBSET FieldNames}

\* whoever answers the paused run writes, once, a raw value under
\* keyset["response"]
Respond(raw) ==
    /\ Positions(store, srun, skeyset.response) = {}
    /\ store' = create_flow_run_input(store, skeyset.response, raw, srun)
    /\ UNCHANGED <<schemaVars, keyVars, sendVars, pollVars>>

SchemaClasses == {Foo, with_initial_data(Foo, [x |-> JInt(1)])}

SchemaInit ==
    /\ pstates = << >> /\ kresults = << >>
    /\ store = << >>
    /\ scls \in SchemaClasses
    /\ sinst \in InstancesOf(scls)
    /\ srun \in Runs
    /\ skeyset = keyset_from_base_key(Lower(scls.name))
    /\ ssaved = FALSE
    /\ loadResult = NotCalled
    /\ lctx = [saved |-> FALSE, stored |-> NotCalled]
    /\ offered = {} /\ sender = << >> /\ minted = {} /\ sentLog = << >>
    /\ poller = << >> /\ caller = << >> /\ yields = << >>

SchemaNext ==
    \/ Save
    \/ Load
    \/ LoadFails
    \/ \E raw \in RawValues : Respond(raw)

SpecSchema == SchemaInit /\ [][SchemaNext]_vars

-----------------------------------------------------------------------------
(* Cross-run Sender *)

KeysetKey == <<"k", "e", "y", "s", "e", "t">>
BarName == <<"B", "a", "r">>
BazName == <<"B", "a", "z">>
\* class Bar(RunInput): x: int
Bar == [name |-> BarName, fields |-> [x |-> Required]]
\* class Baz(RunInput): x: int, a class the recipient does not declare
Baz == [name |-> BazName, fields |-> [x |-> Required]]
\* the sender's own class Foo(RunInput): x: int; z: int, a class of the same
\* name as the recipient's Foo with another field
SenderFoo == [name |-> FooName, fields |-> [x |-> Required, z |-> Required]]

\* mutant: every class gets the keyset of one base key
send_input_keyset_from_run_inputs_one_channel(run_inputs) ==
    [name \in {run_inputs[i].name : i \in DOMAIN run_inputs} |->
        keyset_from_base_key(<<"i", "n", "p", "u", "t">>)]

\* send_input_keyset_from_run_inputs: class name -> keyset of the lower-cased name
send_input_keyset_from_run_inputs(run_inputs) ==
    [name \in {run_inputs[i].name : i \in DOMAIN run_inputs} |->
        keyset_from_base_key(Lower(name))]

\* the classes the recipient run R2 declares, and the keyset it publishes
DeclaredInputs == <<Foo, Bar>>
PublishedKeyset ==
    [run |-> "R2", key |-> KeysetKey,
     value |-> send_input_keyset_from_run_inputs(DeclaredInputs)]

\* the keyset published in a run
Published(run) == store[CHOOSE i \in Positions(store, run, KeysetKey) : TRUE].value

\* FlowRunContext.get(): no context, a context without a flow run, or a flow run
NoContext == [present |-> FALSE, flow_run |-> "None"]
ContextOf(run) == [present |-> TRUE, flow_run |-> run]
Contexts == {NoContext, ContextOf("None"), ContextOf("R1")}

\* mutant: the ambient context is not consulted
SendingFlowRunId_ignores_context(context) == JNull

\* sending_flow_run_id as send_input determines it
SendingFlowRunId(context) ==
    IF context.present /\ context.flow_run # "None"
    THEN PyUuid(context.flow_run)
    ELSE JNull

\* str(uuid4()): a value not handed out before; which one is of no consequence,
\* so the values are handed out in one fixed order
UuidText(i) == <<"u", Digits(i)>>
Uuids == {UuidText(i) : i \in 1..MaxSends}
uuid4(handed_out) ==
    LET i == CHOOSE i \in 1..MaxSends :
                /\ UuidText(i) \notin handed_out
                /\ \A j \in 1..(i - 1) : UuidText(j) \in handed_out
    IN  UuidText(i)

\* mutant: a class name that is not declared gets the keyset of its lower-cased name
LookupKeyset_or_derive(keyset, cls_name) ==
    IF cls_name \in DOMAIN keyset
    THEN Returned(keyset[cls_name])
    ELSE Returned(keyset_from_base_key(Lower(cls_name)))

\* keyset[cls.__name__]: KeyError when the recipient has not declared the class
LookupKeyset(keyset, cls_name) ==
    IF cls_name \in DOMAIN keyset
    THEN Returned(keyset[cls_name])
    ELSE Raised("KeyError")

\* mutant: the key is the response key alone
MintKey_without_suffix(base_key, uuid) == base_key

\* f"{base_key}-{uuid4()}"
MintKey(base_key, uuid) == base_key \o Hyphen \o uuid

\* orjson.loads(InputWrapper(value=input, sending_flow_run_id=...).json())
WrapperJson(input, sending_flow_run_id) ==
    [value |-> InstanceJson(input), sending_flow_run_id |-> ToJson(sending_flow_run_id)]

\* the values handed to send_input
SendInputs ==
    { [cls |-> FooName, fields |-> [x |-> JInt(0), y |-> JInt(0)]],
      [cls |-> FooName, fields |-> [x |-> JInt(1), y |-> JInt(0)]],
      [cls |-> FooName, fields |-> [x |-> JInt(0), z |-> JInt(0)]],
      [cls |-> BarName, fields |-> [x |-> JInt(0)]],
      [cls |-> BazName, fields |-> [x |-> JInt(0)]] }

\* the values handed to send_input for the poller's own class
FooInputs == {i \in SendInputs : i.cls = FooName}

\* a sending task between two send_input calls
Idle(s, outcome) ==
    [context |-> sender[s].context, pc |-> "idle", pending |-> << >>, outcome |-> outcome]
NewSender(context) ==
    [context |-> context, pc |-> "idle", pending |-> << >>, outcome |-> NotCalled]

\* send_input up to its create_flow_run_input call: the context lookup, the read
\* of the recipient's "keyset", the lookup of the input's class name, the key
SendStart(s, input, flow_run_id) ==
    /\ sender[s].pc = "idle"
    /\ <<input, flow_run_id>> \in offered
    /\ LET context == sender[s].context
           read == read_flow_run_input(store, KeysetKey, flow_run_id)
       IN  IF read.kind = "raise"
           THEN /\ sender' = [sender EXCEPT ![s] = Idle(s, read)]
                /\ UNCHANGED minted
           ELSE IF LookupKeyset(read.value, input.cls).kind = "raise"
           THEN /\ sender' = [sender EXCEPT ![s] = Idle(s, LookupKeyset(read.value, input.cls))]
                /\ UNCHANGED minted
           ELSE LET uuid == uuid4(minted)
                    input_keyset == LookupKeyset(read.value, input.cls).value
                IN
                /\ Uuids \ minted # {}
                /\ minted' = minted \cup {uuid}
                /\ sender' = [sender EXCEPT ![s] =
                        [context |-> context,
                         pc |-> "create",
                         pending |-> <<[key |-> MintKey(input_keyset.response, uuid),
                                        value |-> WrapperJson(input, SendingFlowRunId(context)),
                                        run |-> flow_run_id,
                                        input |-> input]>>,
                         outcome |-> NotCalled]]
    /\ UNCHANGED <<offered, store, sentLog, keyVars, schemaVars, pollVars>>

\* send_input when the read of "keyset" fails in the store or on the way
SendReadFails(s) ==
    /\ sender[s].pc = "idle"
    /\ sender' = [sender EXCEPT ![s] = Idle(s, Raised("StoreError"))]
    /\ UNCHANGED <<offered, store, minted, sentLog, keyVars, schemaVars, pollVars>>

\* send_input's create_flow_run_input call: the record is written
Deliver(s) ==
    /\ sender[s].pc = "create"
    /\ LET p == sender[s].pending[1]
       IN  /\ store' = create_flow_run_input(store, p.key, p.value, p.run)
           /\ sentLog' = Append(sentLog,
                    [by |-> s, key |-> p.key, run |-> p.run, input |-> p.input,
                     context |-> sender[s].context,
                     concurrent |-> \E o \in DOMAIN sender \ {s} : sender[o].pc = "create"])
    /\ sender' = [sender EXCEPT ![s] = Idle(s, Returned("None"))]
    /\ UNCHANGED <<offered, minted, keyVars, schemaVars>>

SendCreate(s) == Deliver(s) /\ UNCHANGED pollVars

\* a next() call in its wait that has waited less than half its timeout
\* (timeout ticks)
InEarlyWait(c) ==
    /\ caller[c].pc = "sleep"
    /\ caller[c].elapsed < poller[caller[c].inst].timeout

\* a task that sits idle after a next() call that timed out
IdleAfterTimeout(c) ==
    /\ caller[c].pc = "idle"
    /\ caller[c].nextResult.kind = "raise"
    /\ caller[c].nextResult.error = "TimeoutError"

\* history: the tasks polling in the run note when a key is created
NoteArrival(key, run) ==
    [c \in DOMAIN caller |->
        IF poller[caller[c].inst].run # run THEN caller[c]
        ELSE IF InEarlyWait(c) THEN [caller[c] EXCEPT !.early = @ \cup {key}]
        ELSE IF IdleAfterTimeout(c) THEN [caller[c] EXCEPT !.late = @ \cup {key}]
        ELSE caller[c]]

\* send_input's create_flow_run_input call, with the arrival observed
SendCreateObserved(s) ==
    /\ Deliver(s)
    /\ caller' = NoteArrival(sender[s].pending[1].key, sender[s].pending[1].run)
    /\ UNCHANGED <<poller, yields>>

\* send_input when create_flow_run_input fails: nothing is written
SendCreateFails(s) ==
    /\ sender[s].pc = "create"
    /\ sender' = [sender EXCEPT ![s] = Idle(s, Raised("StoreError"))]
    /\ UNCHANGED <<offered, store, minted, sentLog, keyVars, schemaVars, pollVars>>

SendNext ==
    \/ \E s \in DOMAIN sender, call \in offered : SendStart(s, call[1], call[2])
    \/ \E s \in DOMAIN sender : SendReadFails(s)
    \/ \E s \in DOMAIN sender : SendCreate(s)
    \/ \E s \in DOMAIN sender : SendCreateFails(s)

\* two tasks, s1 inside flow run R1 and s2 outside any flow run, call send_input
\* side by side, to R2 and to R1, which has published no keyset; nothing polls
SendInit ==
    /\ pstates = << >> /\ kresults = << >>
    /\ scls = "none" /\ sinst = "none" /\ srun = "none" /\ skeyset = "none"
    /\ ssaved = FALSE /\ loadResult = NotCalled /\ lctx = "none"
    /\ store = <<PublishedKeyset>>
    /\ offered = (SendInputs \X {"R2"}) \cup (FooInputs \X {"R1"})
    /\ sender \in {[s \in {"s1", "s2"} |->
                        NewSender(IF s = "s1" THEN ContextOf("R1") ELSE context)] :
                    context \in {NoContext, ContextOf("None")}}
    /\ minted = {}
    /\ sentLog = << >>
    /\ poller = << >> /\ caller = << >> /\ yields = << >>

SpecSend == SendInit /\ [][SendNext]_vars

-----------------------------------------------------------------------------
(* Input Poller *)

Min(a, b) == IF a <= b THEN a ELSE b

\* mutant: the store returns the newest matching records first
filter_flow_run_input_newest_first(st, key_prefix, limit, exclude_keys, run) ==
    LET matching == SelectSeq(st, LAMBDA r : /\ r.run = run
                                             /\ StartsWith(r.key, key_prefix)
                                             /\ r.key \notin exclude_keys)
        newest == [n \in 1..Len(matching) |-> matching[Len(matching) + 1 - n]]
    IN  SubSeq(newest, 1, Min(limit, Len(matching)))

\* filter_flow_run_input in the ambient run: up to `limit` records, in creation
\* order, whose key starts with key_prefix and is not in exclude_keys
filter_flow_run_input(st, key_prefix, limit, exclude_keys, run) ==
    LET matching == SelectSeq(st, LAMBDA r : /\ r.run = run
                                             /\ StartsWith(r.key, key_prefix)
                                             /\ r.key \notin exclude_keys)
    IN  SubSeq(matching, 1, Min(limit, Len(matching)))

\* mutant: the deadline is looked at only when a sleep of poll_interval is over
DeadlineTicks_after_sleep(p) == 2 * poller[p].timeout + 2 * poller[p].poll_interval

\* anyio.fail_after(self.timeout), in ticks
DeadlineTicks(p) == 2 * poller[p].timeout
\* mutant: the first sleep is poll_interval like all others
InitialSleepTicks_poll_interval(p) == 2 * poller[p].poll_interval

\* min(self.timeout / 2, self.poll_interval), in ticks
InitialSleepTicks(p) == Min(poller[p].timeout, 2 * poller[p].poll_interval)
\* anyio.sleep(self.poll_interval), in ticks
PollSleepTicks(p) == 2 * poller[p].poll_interval

\* mutant: every failure of next() ends the iteration
IterResult_swallow_all(via, raise_timeout_error, nextResult) ==
    IF nextResult.kind = "raise"
    THEN IF raise_timeout_error
         THEN nextResult
         ELSE Raised(IF via = "__next__" THEN "StopIteration" ELSE "StopAsyncIteration")
    ELSE nextResult

\* __next__ / __anext__: what the iteration protocol makes of next()'s result
IterResult(via, raise_timeout_error, nextResult) ==
    IF nextResult.kind = "raise" /\ nextResult.error = "TimeoutError"
    THEN IF raise_timeout_error
         THEN nextResult
         ELSE Raised(IF via = "__next__" THEN "StopIteration" ELSE "StopAsyncIteration")
    ELSE nextResult

\* to_input_wrapper: InputWrapper(value=self.run_input_cls(**value), **decoded)
to_input_wrapper(cls, flow_run_input) ==
    LET decoded == flow_run_input.value
    IN  IF "value" \notin DOMAIN decoded
        THEN Raised("KeyError")
        ELSE LET inner == Construct(cls, decoded.value)
                 sid == IF "sending_flow_run_id" \in DOMAIN decoded
                        THEN decoded.sending_flow_run_id ELSE JNull
             IN  IF inner.kind = "raise" THEN inner
                 ELSE IF ~UuidFieldAccepts(sid) THEN Raised("ValidationError")
                 ELSE Returned([value |-> inner.value,
                                sending_flow_run_id |-> UuidFieldValue(sid)])

Vias == {"__next__", "__anext__"}

\* the caller's task outside next()
NotIterating(p) ==
    [inst |-> p, pc |-> "idle", via |-> "none", phase |-> "none", elapsed |-> 0,
     sleepLeft |-> 0, inflight |-> << >>, nextResult |-> NotCalled, outcome |-> NotCalled,
     publishedAtCall |-> NotCalled, queries |-> << >>, qseen |-> 0,
     early |-> {}, late |-> {}]

\* next() ends with nextResult, which __next__ / __anext__ hand on; callers is
\* the tasks' state when it ends
EndCallFrom(callers, c, via, nextResult) ==
    LET p == callers[c].inst
    IN  [callers EXCEPT ![c] =
            [NotIterating(p) EXCEPT
                !.nextResult = nextResult,
                !.outcome = IterResult(via, poller[p].raise_timeout_error, nextResult),
                !.publishedAtCall = callers[c].publishedAtCall,
                !.early = callers[c].early,
                !.late = callers[c].late]]

EndCall(c, via, nextResult) == EndCallFrom(caller, c, via, nextResult)

\* history: a call that begins notes what is published in its run; a re-check
\* notes the time it is made at
NoteQuery(c, phase) ==
    IF phase = "first"
    THEN [caller EXCEPT
            ![c].publishedAtCall =
                read_flow_run_input(store, KeysetKey, poller[caller[c].inst].run),
            ![c].queries = << >>,
            ![c].early = {}]
    ELSE [caller EXCEPT ![c].queries = Append(@, caller[c].elapsed)]

\* mutant: keyset() reads the "keyset" record on every call
EnterFilter_rereads(c, via, phase) ==
    LET p == caller[c].inst
        read == read_flow_run_input(store, KeysetKey, poller[p].run)
        noted == NoteQuery(c, phase)
        entered == [noted EXCEPT ![c].via = via]
    IN  IF read.kind = "raise"
        THEN /\ caller' = EndCallFrom(noted, c, via, read)
             /\ UNCHANGED poller
        ELSE /\ poller' = [poller EXCEPT
                    ![p].keyset = <<read.value>>,
                    ![p].resolved = Append(@, read.value)]
             /\ IF LookupKeyset(read.value, poller[p].run_input_cls.name).kind = "raise"
                THEN caller' = EndCallFrom(noted, c, via,
                                       LookupKeyset(read.value, poller[p].run_input_cls.name))
                ELSE caller' = [entered EXCEPT ![c].pc = "query", ![c].phase = phase,
                                               ![c].nextResult = NotCalled,
                                               ![c].outcome = NotCalled]

\* filter_for_inputs up to its filter_flow_run_input call: keyset() reads the
\* "keyset" record unless cached, then the class name is looked up
EnterFilter(c, via, phase) ==
    LET p == caller[c].inst
        read == IF poller[p].keyset # << >>
                THEN Returned(poller[p].keyset[1])
                ELSE read_flow_run_input(store, KeysetKey, poller[p].run)
        noted == NoteQuery(c, phase)
        entered == [noted EXCEPT ![c].via = via]
    IN  IF read.kind = "raise"
        THEN /\ caller' = EndCallFrom(noted, c, via, read)
             /\ UNCHANGED poller
        ELSE /\ poller' = [poller EXCEPT
                    ![p].keyset = <<read.value>>,
                    ![p].resolved = IF poller[p].keyset # << >> THEN @
                                    ELSE Append(@, read.value)]
             /\ IF LookupKeyset(read.value, poller[p].run_input_cls.name).kind = "raise"
                THEN caller' = EndCallFrom(noted, c, via,
                                       LookupKeyset(read.value, poller[p].run_input_cls.name))
                ELSE caller' = [entered EXCEPT ![c].pc = "query", ![c].phase = phase,
                                               ![c].nextResult = NotCalled,
                                               ![c].outcome = NotCalled]

\* __next__ / __anext__ is called: next() enters its first filter_for_inputs
Call(c, via) ==
    /\ caller[c].pc = "idle"
    /\ EnterFilter(c, via, "first")
    /\ UNCHANGED <<store, yields, keyVars, schemaVars, sendVars>>

\* the read of "keyset" fails in the store or on the way
CallReadFails(c, via) ==
    /\ caller[c].pc = "idle"
    /\ poller[caller[c].inst].keyset = << >>
    /\ caller' = EndCallFrom(NoteQuery(c, "first"), c, via, Raised("StoreError"))
    /\ UNCHANGED <<store, poller, yields, keyVars, schemaVars, sendVars>>

\* mutant: the query is made without exclude_keys
Query_ignores_exclusions(c) ==
    /\ caller[c].pc = "query"
    /\ LET p == caller[c].inst
           input_keyset == LookupKeyset(poller[p].keyset[1],
                                        poller[p].run_input_cls.name).value
       IN  caller' = [caller EXCEPT
                ![c].pc = "recv",
                ![c].qseen = Len(yields[p]),
                ![c].inflight = filter_flow_run_input(store, input_keyset.response, 1,
                                                      {}, poller[p].run)]
    /\ UNCHANGED <<store, poller, yields, keyVars, schemaVars, sendVars>>

\* the store answers filter_flow_run_input
Query(c) ==
    /\ caller[c].pc = "query"
    /\ LET p == caller[c].inst
           input_keyset == LookupKeyset(poller[p].keyset[1],
                                        poller[p].run_input_cls.name).value
       IN  caller' = [caller EXCEPT
                ![c].pc = "recv",
                ![c].qseen = Len(yields[p]),
                ![c].inflight = filter_flow_run_input(store, input_keyset.response, 1,
                                                      poller[p].exclude_keys, poller[p].run)]
    /\ UNCHANGED <<store, poller, yields, keyVars, schemaVars, sendVars>>

\* filter_flow_run_input fails in the store or on the way
QueryFails(c) ==
    /\ caller[c].pc = "query"
    /\ caller' = EndCall(c, caller[c].via, Raised("StoreError"))
    /\ UNCHANGED <<store, poller, yields, keyVars, schemaVars, sendVars>>

\* mutant: the keys found are not added to exclude_keys
MarkConsumed_forgets(exclude_keys, flow_run_inputs) == exclude_keys

\* mutant: exclude_keys is set to the keys found
MarkConsumed_replaces(exclude_keys, flow_run_inputs) ==
    {flow_run_inputs[i].key : i \in DOMAIN flow_run_inputs}

\* self.exclude_keys.add(*[i.key for i in flow_run_inputs])
MarkConsumed(exclude_keys, flow_run_inputs) ==
    exclude_keys \cup {flow_run_inputs[i].key : i \in DOMAIN flow_run_inputs}

\* mutant: exclude_keys is one set shared by all instances of the class
Consume_class_level(p, found) ==
    [q \in DOMAIN poller |->
        [poller[q] EXCEPT !.exclude_keys = MarkConsumed(@, found)]]

\* self.exclude_keys.add(...): the instance p marks what it was handed
Consume(p, found) ==
    [poller EXCEPT ![p].exclude_keys = MarkConsumed(@, found)]

\* history: what a next() call of task c was handed, how much the instance had
\* been handed when the store answered the call's query, and when the record
\* had arrived
Handed(c, found, result) ==
    [key |-> found[1].key, by |-> c, result |-> result, qseen |-> caller[c].qseen,
     early |-> found[1].key \in caller[c].early,
     late |-> found[1].key \in caller[c].late]

\* mutant: a record found is deleted from the store when it is handed over
Receive_deletes_consumed(c) ==
    /\ caller[c].pc = "recv"
    /\ LET p == caller[c].inst
           found == caller[c].inflight
       IN  IF found # << >>
           THEN LET result == to_input_wrapper(poller[p].run_input_cls, found[1])
                IN  /\ poller' = Consume(p, found)
                    /\ caller' = EndCall(c, caller[c].via, result)
                    /\ yields' = [yields EXCEPT ![p] = Append(@, Handed(c, found, result))]
                    /\ store' = SelectSeq(store, LAMBDA r : r # found[1])
           ELSE /\ caller' = [caller EXCEPT
                        ![c].pc = "sleep",
                        ![c].phase = "loop",
                        ![c].inflight = << >>,
                        ![c].elapsed = IF caller[c].phase = "first" THEN 0 ELSE @,
                        ![c].sleepLeft = IF caller[c].phase = "first"
                                         THEN InitialSleepTicks(p) ELSE PollSleepTicks(p)]
                /\ UNCHANGED <<store, poller, yields>>
    /\ UNCHANGED <<keyVars, schemaVars, sendVars>>

\* mutant: a record found is marked only once it has been decoded and validated
Receive_validates_before_marking(c) ==
    /\ caller[c].pc = "recv"
    /\ LET p == caller[c].inst
           found == caller[c].inflight
       IN  IF found # << >>
           THEN LET result == to_input_wrapper(poller[p].run_input_cls, found[1])
                IN  /\ poller' = IF result.kind = "return" THEN Consume(p, found) ELSE poller
                    /\ caller' = EndCall(c, caller[c].via, result)
                    /\ yields' = [yields EXCEPT ![p] = Append(@, Handed(c, found, result))]
           ELSE /\ caller' = [caller EXCEPT
                        ![c].pc = "sleep",
                        ![c].phase = "loop",
                        ![c].inflight = << >>,
                        ![c].elapsed = IF caller[c].phase = "first" THEN 0 ELSE @,
                        ![c].sleepLeft = IF caller[c].phase = "first"
                                         THEN InitialSleepTicks(p) ELSE PollSleepTicks(p)]
                /\ UNCHANGED <<poller, yields>>
    /\ UNCHANGED <<store, keyVars, schemaVars, sendVars>>

\* filter_for_inputs resumes with the store's answer and next() goes on: a record
\* found is marked, wrapped and returned; with none found next() sleeps
Receive(c) ==
    /\ caller[c].pc = "recv"
    /\ LET p == caller[c].inst
           found == caller[c].inflight
       IN  IF found # << >>
           THEN LET result == to_input_wrapper(poller[p].run_input_cls, found[1])
                IN  /\ poller' = Consume(p, found)
                    /\ caller' = EndCall(c, caller[c].via, result)
                    /\ yields' = [yields EXCEPT ![p] = Append(@, Handed(c, found, result))]
           ELSE /\ caller' = [caller EXCEPT
                        ![c].pc = "sleep",
                        ![c].phase = "loop",
                        ![c].inflight = << >>,
                        ![c].elapsed = IF caller[c].phase = "first" THEN 0 ELSE @,
                        ![c].sleepLeft = IF caller[c].phase = "first"
                                         THEN InitialSleepTicks(p) ELSE PollSleepTicks(p)]
                /\ UNCHANGED <<poller, yields>>
    /\ UNCHANGED <<store, keyVars, schemaVars, sendVars>>

\* half a second passes; store calls take no time, a sleep that is over or a
\* deadline that is reached acts first
Tick ==
    /\ \E c \in DOMAIN caller : caller[c].pc = "sleep"
    /\ \A c \in DOMAIN caller :
            /\ caller[c].pc \in {"idle", "sleep"}
            /\ caller[c].pc = "sleep" =>
                    /\ caller[c].sleepLeft > 0
                    /\ caller[c].elapsed < DeadlineTicks(caller[c].inst)
    /\ caller' = [c \in DOMAIN caller |->
                    IF caller[c].pc = "sleep"
                    THEN [caller[c] EXCEPT !.elapsed = @ + 1, !.sleepLeft = @ - 1]
                    ELSE caller[c]]
    /\ UNCHANGED <<store, poller, yields, keyVars, schemaVars, sendVars>>

\* anyio.sleep returns before the deadline: the loop calls filter_for_inputs
Wake(c) ==
    /\ caller[c].pc = "sleep"
    /\ caller[c].sleepLeft = 0
    /\ caller[c].elapsed < DeadlineTicks(caller[c].inst)
    /\ EnterFilter(c, caller[c].via, "loop")
    /\ UNCHANGED <<store, yields, keyVars, schemaVars, sendVars>>

\* the deadline of anyio.fail_after is reached while next() sleeps
Timeout(c) ==
    /\ caller[c].pc = "sleep"
    /\ caller[c].elapsed >= DeadlineTicks(caller[c].inst)
    /\ caller' = EndCall(c, caller[c].via, Raised("TimeoutError"))
    /\ UNCHANGED <<store, poller, yields, keyVars, schemaVars, sendVars>>

PollNext ==
    \/ \E c \in DOMAIN caller, via \in Vias : Call(c, via)
    \/ \E c \in DOMAIN caller, via \in Vias : CallReadFails(c, via)
    \/ \E c \in DOMAIN caller : Query(c)
    \/ \E c \in DOMAIN caller : QueryFails(c)
    \/ \E c \in DOMAIN caller : Receive(c)
    \/ \E c \in DOMAIN caller : Wake(c)
    \/ \E c \in DOMAIN caller : Timeout(c)
    \/ Tick

\* get_input(run_input_cls, timeout, poll_interval, raise_timeout_error) in run R2
NewPoller(cls, timeout, poll_interval, raise_timeout_error) ==
    [run_input_cls |-> cls, timeout |-> timeout, poll_interval |-> poll_interval,
     raise_timeout_error |-> raise_timeout_error, run |-> "R2",
     exclude_keys |-> {}, keyset |-> << >>, resolved |-> << >>]

\* R2 has published its keyset; one task sends to R2; one instance p1, for Foo or
\* for the undeclared Baz, with timeout = poll_interval = 1, is iterated by one task
Init ==
    /\ pstates = << >> /\ kresults = << >>
    /\ scls = "none" /\ sinst = "none" /\ srun = "none" /\ skeyset = "none"
    /\ ssaved = FALSE /\ loadResult = NotCalled /\ lctx = "none"
    /\ store = <<PublishedKeyset>>
    /\ offered = SendInputs \X {"R2"}
    /\ sender \in [{"s1"} -> {NewSender(context) : context \in Contexts}]
    /\ minted = {}
    /\ sentLog = << >>
    /\ poller \in [{"p1"} -> {NewPoller(cls, 1, 1, r) : cls \in {Foo, Baz}, r \in BOOLEAN}]
    /\ caller = [c \in {"c1"} |-> NotIterating("p1")]
    /\ yields = [p \in {"p1"} |-> << >>]

Next == SendNext \/ PollNext

Spec == Init /\ [][Next]_vars

\* the same, with every timeout and poll interval and one value to send
TimingInit ==
    /\ pstates = << >> /\ kresults = << >>
    /\ scls = "none" /\ sinst = "none" /\ srun = "none" /\ skeyset = "none"
    /\ ssaved = FALSE /\ loadResult = NotCalled /\ lctx = "none"
    /\ store = <<PublishedKeyset>>
    /\ offered = {<<[cls |-> FooName, fields |-> [x |-> JInt(0), y |-> JInt(0)]], "R2">>}
    /\ sender = [s \in {"s1"} |-> NewSender(ContextOf("R1"))]
    /\ minted = {}
    /\ sentLog = << >>
    /\ poller \in [{"p1"} -> {NewPoller(Foo, t, i, r) :
                                t \in 1..MaxTimeout, i \in 1..MaxPoll, r \in BOOLEAN}]
    /\ caller = [c \in {"c1"} |-> NotIterating("p1")]
    /\ yields = [p \in {"p1"} |-> << >>]

SpecTiming == TimingInit /\ [][Next]_vars

\* the iterating task keeps calling, time passes, and of the store calls made
\* again and again some are answered
Polling ==
    /\ WF_vars(Tick)
    /\ \A c \in {"c1"} :
        /\ WF_vars(\E via \in Vias : Call(c, via))
        /\ SF_vars(Query(c))
        /\ WF_vars(Receive(c))
        /\ WF_vars(Wake(c))
        /\ WF_vars(Timeout(c))

FairSpec == Spec /\ Polling
FairTiming == SpecTiming /\ Polling

\* the store, the senders and everything but the pollers as the poller
\* specifications below start them: R2 has published its keyset, one task inside
\* flow run R1 sends Foo(x=0, y=0) to R2
OneSenderInit ==
    /\ pstates = << >> /\ kresults = << >>
    /\ scls = "none" /\ sinst = "none" /\ srun = "none" /\ skeyset = "none"
    /\ ssaved = FALSE /\ loadResult = NotCalled /\ lctx = "none"
    /\ store = <<PublishedKeyset>>
    /\ offered = {<<[cls |-> FooName, fields |-> [x |-> JInt(0), y |-> JInt(0)]], "R2">>}
    /\ sender = [s \in {"s1"} |-> NewSender(ContextOf("R1"))]
    /\ minted = {}
    /\ sentLog = << >>

\* two instances p1 and p2 for Foo in R2, each iterated by its own task
InstancesInit ==
    /\ OneSenderInit
    /\ poller = [p \in {"p1", "p2"} |-> NewPoller(Foo, 1, 1, FALSE)]
    /\ caller = [c \in {"c1", "c2"} |-> NotIterating(IF c = "c1" THEN "p1" ELSE "p2")]
    /\ yields = [p \in {"p1", "p2"} |-> << >>]

SpecInstances == InstancesInit /\ [][Next]_vars

\* one instance p1 for Foo in R2, iterated by two tasks at once
SharedInit ==
    /\ OneSenderInit
    /\ poller = [p \in {"p1"} |-> NewPoller(Foo, 1, 1, FALSE)]
    /\ caller = [c \in {"c1", "c2"} |-> NotIterating("p1")]
    /\ yields = [p \in {"p1"} |-> << >>]

SpecShared == SharedInit /\ [][Next]_vars

\* the same steps, with the tasks' histories noting when records arrive
ObservedNext ==
    \/ \E s \in DOMAIN sender, call \in offered : SendStart(s, call[1], call[2])
    \/ \E s \in DOMAIN sender : SendReadFails(s)
    \/ \E s \in DOMAIN sender : SendCreateObserved(s)
    \/ \E s \in DOMAIN sender : SendCreateFails(s)
    \/ PollNext

\* every timeout and poll interval, with arrivals observed
SpecSchedule == TimingInit /\ [][ObservedNext]_vars

\* one instance p1 for Foo in R2, iterated by one task, with arrivals observed
RestartInit ==
    /\ OneSenderInit
    /\ poller \in [{"p1"} -> {NewPoller(Foo, 1, 1, r) : r \in BOOLEAN}]
    /\ caller = [c \in {"c1"} |-> NotIterating("p1")]
    /\ yields = [p \in {"p1"} |-> << >>]

SpecRestart == RestartInit /\ [][ObservedNext]_vars

FOOName == <<"F", "O", "O">>
\* class FOO(RunInput): x: int, a class whose name differs from Foo's by case only
FOO == [name |-> FOOName, fields |-> [x |-> Required]]

\* R2 declares Foo and Bar, or Foo, FOO and Bar, and has published the keyset;
\* one task sends a Foo, a FOO and a Bar to R2; one instance p1 polls for Foo
ChannelsInit ==
    /\ pstates = << >> /\ kresults = << >>
    /\ scls = "none" /\ sinst = "none" /\ srun = "none" /\ skeyset = "none"
    /\ ssaved = FALSE /\ loadResult = NotCalled /\ lctx = "none"
    /\ \E declared \in {<<Foo, Bar>>, <<Foo, FOO, Bar>>} :
            store = <<[run |-> "R2", key |-> KeysetKey,
                       value |-> send_input_keyset_from_run_inputs(declared)]>>
    /\ offered = { <<[cls |-> FooName, fields |-> [x |-> JInt(0), y |-> JInt(0)]], "R2">>,
                   <<[cls |-> FOOName, fields |-> [x |-> JInt(0)]], "R2">>,
                   <<[cls |-> BarName, fields |-> [x |-> JInt(0)]], "R2">> }
    /\ sender = [s \in {"s1"} |-> NewSender(ContextOf("R1"))]
    /\ minted = {}
    /\ sentLog = << >>
    /\ poller = [p \in {"p1"} |-> NewPoller(Foo, 1, 1, FALSE)]
    /\ caller = [c \in {"c1"} |-> NotIterating("p1")]
    /\ yields = [p \in {"p1"} |-> << >>]

SpecChannels == ChannelsInit /\ [][Next]_vars

\* R2 declares Baz as well and publishes its keyset again, in place of the one
\* published before
Republish ==
    /\ Published("R2") # send_input_keyset_from_run_inputs(<<Foo, Bar, Baz>>)
    /\ store' = create_flow_run_input(store, KeysetKey,
                    send_input_keyset_from_run_inputs(<<Foo, Bar, Baz>>), "R2")
    /\ UNCHANGED <<keyVars, schemaVars, sendVars, pollVars>>

\* one task sends a Foo and a Baz to R2; one instance p1, for Foo or for Baz,
\* is iterated by one task
CacheInit ==
    /\ pstates = << >> /\ kresults = << >>
    /\ scls = "none" /\ sinst = "none" /\ srun = "none" /\ skeyset = "none"
    /\ ssaved = FALSE /\ loadResult = NotCalled /\ lctx = "none"
    /\ store = <<PublishedKeyset>>
    /\ offered = { <<[cls |-> FooName, fields |-> [x |-> JInt(0), y |-> JInt(0)]], "R2">>,
                   <<[cls |-> BazName, fields |-> [x |-> JInt(0)]], "R2">> }
    /\ sender = [s \in {"s1"} |-> NewSender(ContextOf("R1"))]
    /\ minted = {}
    /\ sentLog = << >>
    /\ poller \in [{"p1"} -> {NewPoller(cls, 1, 1, FALSE) : cls \in {Foo, Baz}}]
    /\ caller = [c \in {"c1"} |-> NotIterating("p1")]
    /\ yields = [p \in {"p1"} |-> << >>]

CacheNext == Next \/ Republish

SpecCache == CacheInit /\ [][CacheNext]_vars

-----------------------------------------------------------------------------
(* Claims about the sender and the poller *)

\* the entries of a poller's history that returned an envelope
ReturnedAt(p) == {i \in DOMAIN yields[p] : yields[p][i].result.kind = "return"}

InStore(run, key) == Positions(store, run, key) # {}

\* C1: once an instance has yielded the record with key k, no later next() call
\* on that instance yields a record with key k again, although the record is
\* still in the store.
C1_NoKeyYieldedTwice ==
    \A p \in DOMAIN yields :
        \A i, j \in ReturnedAt(p) :
            i # j => yields[p][i].key # yields[p][j].key

\* a record was yielded, is still in the store, and a later next() call on the
\* same instance timed out without yielding it again
C1_Witness ==
    \E p \in DOMAIN yields, c \in DOMAIN caller :
        /\ caller[c].inst = p
        /\ ReturnedAt(p) # {}
        /\ \A i \in ReturnedAt(p) : InStore(poller[p].run, yields[p][i].key)
        /\ caller[c].pc = "idle"
        /\ caller[c].nextResult.kind = "raise"
        /\ caller[c].nextResult.error = "TimeoutError"

\* the record a completed delivery must have left in the store
DeliveredRecord(d) ==
    [run |-> d.run, key |-> d.key,
     value |-> [value |-> d.input.fields,
                sending_flow_run_id |->
                    IF d.context.present /\ d.context.flow_run # "None"
                    THEN JStr(d.context.flow_run) ELSE JNull]]

\* C2: every completed send_input call has created exactly one record, under
\* <response key of the value's class>-<suffix> in the recipient run; no record
\* of an earlier delivery is overwritten or removed, and no two deliveries share
\* a key, also when two tasks deliver to the same recipient and class at once.
C2_OneRecordPerDelivery ==
    /\ Len(store) = 1 + Len(sentLog)
    /\ store[1] = PublishedKeyset
    /\ \A i \in DOMAIN sentLog :
          /\ store[i + 1] = DeliveredRecord(sentLog[i])
          /\ \E u \in Uuids :
                sentLog[i].key = Lower(sentLog[i].input.cls) \o ResponseSuffix \o <<"-">> \o u
    /\ \A i, j \in DOMAIN sentLog : i # j => sentLog[i].key # sentLog[j].key

\* two tasks delivered to the same recipient and class, the second while the
\* first delivery was still under way
C2_Witness ==
    \E i, j \in DOMAIN sentLog :
        /\ i < j
        /\ sentLog[i].by # sentLog[j].by
        /\ sentLog[i].run = sentLog[j].run
        /\ sentLog[i].input.cls = sentLog[j].input.cls
        /\ sentLog[i].concurrent

\* the envelope the poller must return for a completed delivery
ExpectedEnvelope(d) ==
    [value |-> [cls |-> FooName, fields |-> d.input.fields],
     sending_flow_run_id |->
        IF d.context.present /\ d.context.flow_run # "None"
        THEN PyUuid(d.context.flow_run) ELSE JNull]

\* a well-formed Foo value was delivered to R2 under key k
SentFoo(k) ==
    \E i \in DOMAIN sentLog :
        /\ sentLog[i].key = k
        /\ sentLog[i].run = "R2"
        /\ sentLog[i].input.cls = FooName
        /\ DOMAIN sentLog[i].input.fields = DOMAIN Foo.fields

\* the instance p has returned, for key k, the envelope of that delivery
ReturnedFor(p, k) ==
    \E j \in DOMAIN yields[p], i \in DOMAIN sentLog :
        /\ yields[p][j].key = k
        /\ sentLog[i].key = k
        /\ yields[p][j].result.kind = "return"
        /\ yields[p][j].result.value = ExpectedEnvelope(sentLog[i])

FooChannelKeys == {Lower(FooName) \o ResponseSuffix \o <<"-">> \o u : u \in Uuids}

\* C3: a value V of class Foo sent to R2 is eventually returned by the poller
\* for Foo on R2, as long as it keeps being polled, in an envelope whose value
\* equals V and whose sending_flow_run_id is the sender's flow run, or None when
\* the sender is in no flow run; and the poller returns nothing else.
C3_RoundTrip ==
    /\ \A k \in FooChannelKeys :
            (SentFoo(k) /\ poller["p1"].run_input_cls = Foo) ~> ReturnedFor("p1", k)
    /\ [](\A j \in ReturnedAt("p1") : ReturnedFor("p1", yields["p1"][j].key))

\* the poller returned a Foo value sent from inside flow run R1, in an envelope
\* naming R1 as the sender
C3_Witness ==
    \E i \in DOMAIN sentLog, j \in DOMAIN yields["p1"] :
        /\ SentFoo(sentLog[i].key)
        /\ sentLog[i].context.present
        /\ sentLog[i].context.flow_run = "R1"
        /\ yields["p1"][j].key = sentLog[i].key
        /\ yields["p1"][j].result.kind = "return"
        /\ yields["p1"][j].result.value.value.fields = sentLog[i].input.fields
        /\ yields["p1"][j].result.value.sending_flow_run_id = PyUuid("R1")

EndOfSequence(outcome) ==
    outcome.kind = "raise" /\ outcome.error \in {"StopIteration", "StopAsyncIteration"}

\* C4: __next__ / __anext__ produce end-of-sequence if and only if next() timed
\* out and raise_timeout_error is false; with raise_timeout_error true the
\* timeout reaches the caller; every other failure of next() reaches the caller
\* unchanged in both modes, and the call is over (nothing is retried).
C4_IterationProtocol ==
    \A c \in DOMAIN caller :
        LET r == caller[c].nextResult
            o == caller[c].outcome
            timedOut == r.kind = "raise" /\ r.error = "TimeoutError"
            flag == poller[caller[c].inst].raise_timeout_error
        IN  r.kind # "none" =>
                /\ caller[c].pc = "idle"
                /\ EndOfSequence(o) <=> (timedOut /\ ~flag)
                /\ (timedOut /\ flag) => (o.kind = "raise" /\ o.error = "TimeoutError")
                /\ (r.kind = "raise" /\ ~timedOut) =>
                        (o.kind = "raise" /\ o.error = r.error)
                /\ r.kind = "return" => o.kind = "return"

\* with raise_timeout_error false, a store failure inside next() reached the
\* caller as it was
C4_Witness ==
    \E c \in DOMAIN caller :
        /\ ~poller[caller[c].inst].raise_timeout_error
        /\ caller[c].nextResult.kind = "raise"
        /\ caller[c].nextResult.error = "StoreError"
        /\ caller[c].outcome.kind = "raise"
        /\ caller[c].outcome.error = "StoreError"
        /\ yields[caller[c].inst] # << >>

\* C5: a next() call never waits longer than its timeout (2 * timeout ticks) and
\* always ends; a wait ends without a record only by the timeout, at the
\* deadline, which the caller sees as end-of-sequence or as the timeout itself.
C5_TimeoutBound ==
    /\ [](\A c \in DOMAIN caller :
            caller[c].elapsed <= 2 * poller[caller[c].inst].timeout)
    /\ \A c \in {"c1"} : (caller[c].pc # "idle") ~> (caller[c].pc = "idle")
    /\ [][\A c \in DOMAIN caller :
            (caller[c].pc = "sleep" /\ caller'[c].pc = "idle") =>
                /\ caller[c].elapsed = 2 * poller[caller[c].inst].timeout
                /\ caller'[c].nextResult.kind = "raise"
                /\ caller'[c].nextResult.error = "TimeoutError"
                /\ \/ EndOfSequence(caller'[c].outcome)
                   \/ caller'[c].outcome.error = "TimeoutError"]_vars

\* with nothing ever sent, a call timed out
C5_Witness ==
    \E c \in DOMAIN caller :
        /\ sentLog = << >> /\ minted = {}
        /\ caller[c].pc = "idle"
        /\ caller[c].nextResult.kind = "raise"
        /\ caller[c].nextResult.error = "TimeoutError"

\* C6: send_input of a value whose class name is not in the recipient's published
\* keyset fails with KeyError, the unknown-input-type error, and that call creates
\* and changes no record.
C6_UnknownTypeWritesNothing ==
    [][\A s \in DOMAIN sender, input \in SendInputs, flow_run_id \in Runs :
        ( /\ SendStart(s, input, flow_run_id)
          /\ InStore(flow_run_id, KeysetKey)
          /\ \A i \in Positions(store, flow_run_id, KeysetKey) :
                input.cls \notin DOMAIN store[i].value )
        => /\ sender'[s].pc = "idle"
           /\ sender'[s].outcome.kind = "raise"
           /\ sender'[s].outcome.error = "KeyError"
           /\ store' = store
           /\ sentLog' = sentLog]_vars

\* a send of an undeclared class failed with KeyError after an earlier delivery,
\* whose record is all the store holds besides the keyset
C6_Witness ==
    \E s \in DOMAIN sender :
        /\ sender[s].outcome.kind = "raise"
        /\ sender[s].outcome.error = "KeyError"
        /\ Len(sentLog) = 1
        /\ Len(store) = 2

-----------------------------------------------------------------------------
(* Claims about the schema registrar *)

FieldSetSatisfies(cls, raw) ==
    /\ DOMAIN raw \subseteq DOMAIN cls.fields
    /\ \A f \in DOMAIN cls.fields : cls.fields[f].required => f \in DOMAIN raw

\* C8: load fails with a validation error and returns no instance whenever the
\* raw value under keyset["response"] has an undeclared field or lacks a required
\* one; it returns an instance of the class only when the raw value's field set
\* satisfies the declared field set.
C8_ClosedSchema ==
    lctx.stored.kind = "return" =>
        /\ ~FieldSetSatisfies(scls, lctx.stored.value) =>
                (loadResult.kind = "raise" /\ loadResult.error = "ValidationError")
        /\ loadResult.kind = "return" =>
                /\ FieldSetSatisfies(scls, lctx.stored.value)
                /\ loadResult.value.cls = scls.name
                /\ DOMAIN loadResult.value.fields = DOMAIN scls.fields

\* a raw value with all declared fields and one undeclared field was loaded and
\* refused
C8_Witness ==
    /\ lctx.stored.kind = "return"
    /\ DOMAIN scls.fields \subseteq DOMAIN lctx.stored.value
    /\ "z" \in DOMAIN lctx.stored.value
    /\ \A f \in DOMAIN scls.fields : lctx.stored.value[f].t = "int"
    /\ loadResult.kind = "raise"
    /\ loadResult.error = "ValidationError"

-----------------------------------------------------------------------------
(* Claims about the keyset deriver *)

KeysetKeys(ks) == {ks.response, ks.schema}

\* C9: keyset_from_paused_state on a state that is not paused always raises the
\* invalid-state-kind error and returns no keyset; on a paused state it returns
\* the keyset whose keys are lowercase(name) + "-" + pause token followed by
\* "-response" and "-schema".
C9_PausedStateKeyset ==
    \A i \in DOMAIN pstates :
        kresults[i].kind # "none" =>
            IF pstates[i].type = "PAUSED"
            THEN /\ kresults[i].kind = "return"
                 /\ kresults[i].value =
                        [response |-> [j \in 1..Len(pstates[i].name) |->
                                            LowerChar(pstates[i].name[j])]
                                        \o <<"-">> \o pstates[i].pause_key
                                        \o <<"-", "r", "e", "s", "p", "o", "n", "s", "e">>,
                         schema |-> [j \in 1..Len(pstates[i].name) |->
                                            LowerChar(pstates[i].name[j])]
                                        \o <<"-">> \o pstates[i].pause_key
                                        \o <<"-", "s", "c", "h", "e", "m", "a">>]
            ELSE /\ kresults[i].kind = "raise"
                 /\ kresults[i].error = "RuntimeError"

\* keyset_from_paused_state was called on a state that is not paused and raised
C9_Witness ==
    \E i \in DOMAIN pstates :
        /\ pstates[i].type # "PAUSED"
        /\ kresults[i].kind = "raise"

\* C10 (as claimed): two paused states whose pause tokens differ never share a
\* key between their keysets, whatever their names and tokens.
C10_DistinctTokensDistinctKeys ==
    \A i, j \in DOMAIN pstates :
        ( /\ kresults[i].kind = "return"
          /\ kresults[j].kind = "return"
          /\ pstates[i].pause_key # pstates[j].pause_key )
        => KeysetKeys(kresults[i].value) \cap KeysetKeys(kresults[j].value) = {}

\* C11: keyset_from_base_key(base) is, for every base string, exactly the mapping
\* of "response" to base + "-response" and of "schema" to base + "-schema"; two
\* calls on the same base return equal keysets; and in every keyset the response
\* key differs from the schema key.
C11_BaseKeyKeyset ==
    /\ \A i \in DOMAIN pstates :
          kresults[i].kind # "none" =>
            /\ kresults[i].kind = "return"
            /\ DOMAIN kresults[i].value = {"response", "schema"}
            /\ kresults[i].value.response =
                    pstates[i] \o <<"-", "r", "e", "s", "p", "o", "n", "s", "e">>
            /\ kresults[i].value.schema =
                    pstates[i] \o <<"-", "s", "c", "h", "e", "m", "a">>
            /\ kresults[i].value.response # kresults[i].value.schema
    /\ \A i, j \in DOMAIN pstates :
          ( /\ kresults[i].kind = "return"
            /\ kresults[j].kind = "return"
            /\ pstates[i] = pstates[j] )
          => kresults[i].value = kresults[j].value

\* keyset_from_base_key was called twice on the same base key
C11_Witness ==
    /\ pstates[1] = pstates[2]
    /\ kresults[1].kind = "return"
    /\ kresults[2].kind = "return"

-----------------------------------------------------------------------------
(* Claims about instances and tasks side by side *)

HandedKeys(p) == {yields[p][i].key : i \in DOMAIN yields[p]}

\* C12: each instance keeps its own exclusion set, holding the keys handed to
\* that instance and no others, and each instance, iterated by one task, yields
\* a key at most once; so two instances for the same class on the same run can
\* both yield the record with the same key.
C12_ExclusionPerInstance ==
    \A p \in DOMAIN poller :
        /\ poller[p].exclude_keys = HandedKeys(p)
        /\ \A i, j \in DOMAIN yields[p] : i # j => yields[p][i].key # yields[p][j].key

\* both instances have returned the record with the same key
C12_Witness ==
    \E i \in ReturnedAt("p1"), j \in ReturnedAt("p2") :
        /\ yields["p1"][i].key = yields["p2"][j].key
        /\ poller["p1"].run_input_cls = poller["p2"].run_input_cls
        /\ poller["p1"].run = poller["p2"].run

\* C13: the store's answer to a query and the marking of the key it returned are
\* two steps, so two tasks running next() on one instance can both be yielded
\* the record with the same key; that happens only to two different tasks, and
\* only when the second task's query was answered before the first task's key
\* was marked.
C13_QueryAndMarkNotAtomic ==
    \A p \in DOMAIN yields :
        \A i, j \in DOMAIN yields[p] :
            (i < j /\ yields[p][i].key = yields[p][j].key) =>
                /\ yields[p][i].by # yields[p][j].by
                /\ yields[p][j].qseen < i

\* two tasks iterating the same instance were both returned the record with
\* the same key
C13_Witness ==
    \E p \in DOMAIN yields :
        \E i, j \in ReturnedAt(p) :
            /\ i < j
            /\ yields[p][i].key = yields[p][j].key
            /\ yields[p][i].by # yields[p][j].by
            /\ caller[yields[p][i].by].inst = p
            /\ caller[yields[p][j].by].inst = p

-----------------------------------------------------------------------------
(* Claims about the course of one next() call *)

\* the keys of the channel the instance p polls
OnChannel(p, key) ==
    /\ Len(key) >= Len(poller[p].run_input_cls.name) + 9
    /\ \A n \in 1..Len(poller[p].run_input_cls.name) :
            key[n] = LowerChar(poller[p].run_input_cls.name[n])
    /\ SubSeq(key, Len(poller[p].run_input_cls.name) + 1,
                    Len(poller[p].run_input_cls.name) + 9)
            = <<"-", "r", "e", "s", "p", "o", "n", "s", "e">>

\* C14: a next() call queries the store at once; with nothing found it re-checks
\* first after min(timeout / 2, poll_interval) and then every poll_interval, as
\* long as the time waited is below timeout, skipping no re-check. With
\* poll_interval >= timeout there is a re-check at timeout / 2: a call that is
\* still waiting after it, or that timed out, saw no record of its channel
\* arrive before timeout / 2. (Times in ticks of half a second.)
C14_PollingSchedule ==
    \A c \in DOMAIN caller :
        LET p == caller[c].inst
            T == poller[p].timeout
            P == poller[p].poll_interval
            first == IF T <= 2 * P THEN T ELSE 2 * P
            q == caller[c].queries
        IN  /\ (caller[c].pc \in {"query", "recv"} /\ caller[c].phase = "first") =>
                    (q = << >> /\ caller[c].elapsed = 0)
            /\ \A k \in DOMAIN q : q[k] = first + (k - 1) * 2 * P /\ q[k] < 2 * T
            /\ caller[c].pc = "sleep" =>
                    /\ caller[c].elapsed <= 2 * T
                    /\ IF q = << >>
                       THEN caller[c].elapsed <= first
                       ELSE /\ q[Len(q)] <= caller[c].elapsed
                            /\ caller[c].elapsed <= q[Len(q)] + 2 * P
            /\ (caller[c].pc # "idle" /\ caller[c].phase = "loop"
                    /\ caller[c].elapsed > first) => q # << >>
            /\ ( /\ P >= T
                 /\ \/ caller[c].pc = "sleep" /\ q # << >>
                    \/ /\ caller[c].pc = "idle"
                       /\ caller[c].nextResult.kind = "raise"
                       /\ caller[c].nextResult.error = "TimeoutError" )
                => \A key \in caller[c].early : ~OnChannel(p, key)

\* with poll_interval >= timeout, a record that arrived while the call had
\* waited less than timeout / 2 was returned by that call
C14_Witness ==
    \E p \in DOMAIN yields :
        \E i \in ReturnedAt(p) :
            /\ poller[p].poll_interval >= poller[p].timeout
            /\ yields[p][i].early
            /\ OnChannel(p, yields[p][i].key)

\* C15: an instance's exclusion set changes only when a next() call on it is
\* handed a record by the store, and then by gaining that record's key; it never
\* shrinks, a call that times out leaves it as it was, and it holds no key that
\* was not handed to a call. After a call that timed out, or ended the
\* sequence, the instance can be polled again.
C15_ExclusionSetGrowsByHandedKeys ==
    /\ [][\A p \in DOMAIN poller :
            /\ poller[p].exclude_keys \subseteq poller'[p].exclude_keys
            /\ poller'[p].exclude_keys # poller[p].exclude_keys =>
                    \E c \in DOMAIN caller :
                        /\ caller[c].inst = p
                        /\ caller[c].pc = "recv"
                        /\ caller[c].inflight # << >>
                        /\ poller'[p].exclude_keys =
                                poller[p].exclude_keys \cup {caller[c].inflight[1].key}
                        /\ Len(yields'[p]) = Len(yields[p]) + 1
                        /\ yields'[p][Len(yields'[p])].key = caller[c].inflight[1].key
            /\ (\E c \in DOMAIN caller :
                    /\ caller[c].inst = p
                    /\ caller[c].pc # "idle"
                    /\ caller'[c].pc = "idle"
                    /\ caller'[c].nextResult.kind = "raise"
                    /\ caller'[c].nextResult.error = "TimeoutError")
                => poller'[p].exclude_keys = poller[p].exclude_keys]_vars
    /\ [](\A p \in DOMAIN poller :
            \A key \in poller[p].exclude_keys :
                \E i \in DOMAIN yields[p] : yields[p][i].key = key)
    /\ [](\A c \in DOMAIN caller :
            (caller[c].pc = "idle" /\ caller[c].outcome.kind = "raise"
                /\ caller[c].outcome.error \in
                        {"TimeoutError", "StopIteration", "StopAsyncIteration"})
            => ENABLED (\E via \in Vias : Call(c, via)))

\* a record that arrived while the task sat idle after a next() call that timed
\* out was returned by a later call on the same instance
C15_Witness ==
    \E p \in DOMAIN yields :
        \E i \in ReturnedAt(p) :
            /\ yields[p][i].late
            /\ yields[p][i].key \in poller[p].exclude_keys

\* the delivery that created the record with this key
DeliveryOf(key) == CHOOSE i \in DOMAIN sentLog : sentLog[i].key = key

\* C16: a record found is marked consumed before it is decoded and validated:
\* when its inner value does not fit the instance's class, next() fails with the
\* validation error and the key is in the exclusion set all the same, so no
\* later call is handed that record again.
C16_MarkedBeforeValidation ==
    \A p \in DOMAIN yields :
        /\ \A i \in DOMAIN yields[p] :
              /\ yields[p][i].key \in poller[p].exclude_keys
              /\ ~FieldSetSatisfies(poller[p].run_input_cls,
                                    sentLog[DeliveryOf(yields[p][i].key)].input.fields)
                    => /\ yields[p][i].result.kind = "raise"
                       /\ yields[p][i].result.error = "ValidationError"
        /\ \A i, j \in DOMAIN yields[p] :
              (i # j /\ yields[p][i].result.kind = "raise")
                    => yields[p][i].key # yields[p][j].key

\* a call failed on a record that does not fit the class, and a later call on
\* the instance returned the next record
C16_Witness ==
    \E p \in DOMAIN yields :
        \E i, j \in DOMAIN yields[p] :
            /\ i < j
            /\ yields[p][i].result.kind = "raise"
            /\ yields[p][i].result.error = "ValidationError"
            /\ yields[p][i].key \in poller[p].exclude_keys
            /\ InStore(poller[p].run, yields[p][i].key)
            /\ yields[p][j].result.kind = "return"

-----------------------------------------------------------------------------
(* Claims about channels *)

\* the declared class names differ also when case is ignored
CaseDistinct(names) == \A a, b \in names : Lower(a) = Lower(b) => a = b

\* C17: an instance for class A is handed only records whose key starts with
\* A's response key, which are the records sent as a class of A's lower-case
\* name: with declared names that differ also when case is ignored, a value
\* sent as another class B is never yielded by the instance for A; two declared
\* classes of one lower-case name get the same keyset, and the instance for one
\* is handed what was sent as the other.
C17_ChannelIsolation ==
    /\ \A a, b \in DOMAIN Published("R2") :
            (Lower(a) = Lower(b)) <=> (Published("R2")[a] = Published("R2")[b])
    /\ \A p \in DOMAIN yields :
          \A i \in DOMAIN yields[p] :
             LET sent == sentLog[DeliveryOf(yields[p][i].key)].input.cls
             IN  /\ OnChannel(p, yields[p][i].key)
                 /\ Lower(sent) = Lower(poller[p].run_input_cls.name)
                 /\ CaseDistinct(DOMAIN Published("R2")) => sent = poller[p].run_input_cls.name

\* with Foo and FOO declared, the instance for Foo returned a value sent as FOO;
\* a value sent as Bar is in the store and was not handed to it by a call that
\* found nothing more and timed out
C17_Witness ==
    /\ \E i \in ReturnedAt("p1") :
            sentLog[DeliveryOf(yields["p1"][i].key)].input.cls = FOOName
    /\ \E d \in DOMAIN sentLog :
            /\ sentLog[d].input.cls = BarName
            /\ InStore("R2", sentLog[d].key)
            /\ sentLog[d].key \notin HandedKeys("p1")
    /\ IdleAfterTimeout("c1")
    /\ poller["p1"].run_input_cls = Foo

\* C18: an instance reads the "keyset" record on its first store query and not
\* at construction, keeps what it read for its lifetime and reads the record at
\* most once; every later call looks its class up in the keyset it keeps, so a
\* keyset published afterwards is not seen by the instance.
C18_KeysetResolvedOnce ==
    /\ [](\A p \in DOMAIN poller :
            /\ Len(poller[p].resolved) <= 1
            /\ poller[p].keyset = poller[p].resolved)
    /\ [][\A p \in DOMAIN poller :
            /\ poller[p].keyset # << >> => poller'[p].keyset = poller[p].keyset
            /\ (poller[p].keyset = << >> /\ poller'[p].keyset # << >>) =>
                    /\ poller'[p].keyset = <<Published(poller[p].run)>>
                    /\ \E c \in DOMAIN caller :
                            /\ caller[c].inst = p
                            /\ caller[c].pc = "idle"
                            /\ caller'[c] # caller[c]]_vars
    /\ [][\A c \in DOMAIN caller :
            LET p == caller[c].inst
            IN  ( /\ poller[p].keyset # << >>
                  /\ caller[c].pc = "idle"
                  /\ caller'[c] # caller[c]
                  /\ ~( /\ caller'[c].nextResult.kind = "raise"
                        /\ caller'[c].nextResult.error = "StoreError" ) )
                => IF poller[p].run_input_cls.name \in DOMAIN poller[p].keyset[1]
                   THEN caller'[c].pc = "query"
                   ELSE /\ caller'[c].pc = "idle"
                        /\ caller'[c].nextResult.kind = "raise"
                        /\ caller'[c].nextResult.error = "KeyError"]_vars

\* a call that began when Baz was published failed with the unknown-class error
\* on an instance for Baz that had read the keyset before Baz was published
C18_Witness ==
    \E c \in DOMAIN caller :
        LET p == caller[c].inst
        IN  /\ poller[p].keyset # << >>
            /\ poller[p].run_input_cls.name \notin DOMAIN poller[p].keyset[1]
            /\ caller[c].pc = "idle"
            /\ caller[c].publishedAtCall.kind = "return"
            /\ poller[p].run_input_cls.name \in DOMAIN caller[c].publishedAtCall.value
            /\ caller[c].nextResult.kind = "raise"
            /\ caller[c].nextResult.error = "KeyError"

\* C19: polling only reads the store: no step of a next() call, whether the call
\* returns a record, times out or fails, creates, changes or deletes a record;
\* what was handed over is noted in the instance's exclusion set alone, and the
\* records yielded stay in the store as they were delivered.
C19_PollingReadsOnly ==
    /\ [][(caller' # caller \/ poller' # poller \/ yields' # yields)
                => store' = store]_vars
    /\ [](\A p \in DOMAIN yields :
            \A i \in DOMAIN yields[p] :
                /\ yields[p][i].key \in poller[p].exclude_keys
                /\ \E n \in DOMAIN store :
                        store[n] = DeliveredRecord(sentLog[DeliveryOf(yields[p][i].key)]))

\* calls on the instance returned a record, failed on another and timed out,
\* and the store holds the keyset and every record delivered
C19_Witness ==
    /\ \E i, j \in DOMAIN yields["p1"] :
            /\ yields["p1"][i].result.kind = "return"
            /\ yields["p1"][j].result.kind = "raise"
    /\ IdleAfterTimeout("c1")
    /\ Len(store) = 1 + Len(sentLog)
    /\ \A d \in DOMAIN sentLog : store[d + 1] = DeliveredRecord(sentLog[d])

\* where in the store, which keeps creation order, the record with this key is
PositionOf(run, key) == CHOOSE n \in DOMAIN store : store[n].run = run /\ store[n].key = key

\* C20: with a store whose filter returns matching records in creation order, an
\* instance iterated by one task yields the records of its channel in creation
\* order: it never yields b before a when a was created before b, because each
\* call is handed the first record of the channel not handed over before.
C20_CreationOrder ==
    \A p \in DOMAIN yields :
        /\ \A i, j \in DOMAIN yields[p] :
              i < j => PositionOf(poller[p].run, yields[p][i].key)
                            < PositionOf(poller[p].run, yields[p][j].key)
        /\ \A i \in DOMAIN yields[p] :
              \A n \in 1..(PositionOf(poller[p].run, yields[p][i].key) - 1) :
                  (store[n].run = poller[p].run /\ OnChannel(p, store[n].key))
                      => \E h \in 1..(i - 1) : yields[p][h].key = store[n].key

\* two records of the channel were delivered, and the instance yielded the one
\* created first, then the other
C20_Witness ==
    \E p \in DOMAIN yields :
        \E i, j \in DOMAIN yields[p] :
            /\ i < j
            /\ yields[p][i].key # yields[p][j].key
            /\ Len(sentLog) >= 2
            /\ yields[p][i].key = sentLog[1].key
            /\ yields[p][j].key = sentLog[2].key
            /\ PositionOf(poller[p].run, yields[p][i].key)
                    < PositionOf(poller[p].run, yields[p][j].key)

====
